---- MODULE Spec2Model ----
(***************************************************************************)
(* CyberGuardLog: the log-ingestion handler (server/routes.ts), the        *)
(* detection code of DatabaseStorage (server/storage-db.ts), the           *)
(* WebSocket fan-out of LogStreamManager (server/websocket.ts), the alert  *)
(* routes and the client hook useLogStream (client/src/pages/login.tsx).   *)
(*                                                                         *)
(* JavaScript strings are tuples of one-character strings, so that         *)
(* includes(), RegExp.test() and === are computed, not assumed.            *)
(* One action is one run of the event loop: the code between two awaits    *)
(* that wait for I/O (database, remote scorer, socket events).             *)
(***************************************************************************)
EXTENDS Integers, Sequences, FiniteSets, TLC

(***************************************************************************)
(* Bounds of the model                                                     *)
(***************************************************************************)
MaxSocks == 2      \* WebSocket connections that may ever be accepted
NumIds == 2        \* distinct values Math.random() may yield as subscriber id
MaxReqs == 1       \* POST /api/logs requests
MaxManual == 1     \* POST /api/alerts requests
MaxRules == 2      \* rows that POST /api/rules may insert
MaxClientSocks == 3 \* WebSockets that one page may ever create

Socks == 1..MaxSocks
Ids == 1..NumIds
Reqs == 1..MaxReqs
NoSock == 0
NoId == 0
ClientSocks == 1..MaxClientSocks
NoClientSock == 0

(***************************************************************************)
(* Strings                                                                 *)
(***************************************************************************)
UpperToLower ==
  [c \in {"A","B","C","D","E","F","G","H","I","J","K","L","M","N","O","P","Q",
          "R","S","T","U","V","W","X","Y","Z"} |->
     CASE c = "A" -> "a" [] c = "B" -> "b" [] c = "C" -> "c" [] c = "D" -> "d"
       [] c = "E" -> "e" [] c = "F" -> "f" [] c = "G" -> "g" [] c = "H" -> "h"
       [] c = "I" -> "i" [] c = "J" -> "j" [] c = "K" -> "k" [] c = "L" -> "l"
       [] c = "M" -> "m" [] c = "N" -> "n" [] c = "O" -> "o" [] c = "P" -> "p"
       [] c = "Q" -> "q" [] c = "R" -> "r" [] c = "S" -> "s" [] c = "T" -> "t"
       [] c = "U" -> "u" [] c = "V" -> "v" [] c = "W" -> "w" [] c = "X" -> "x"
       [] c = "Y" -> "y" [] c = "Z" -> "z"]

\* the "i" flag of a RegExp: both sides are compared in lower case
toLowerCase(s) ==
  [i \in 1..Len(s) |-> IF s[i] \in DOMAIN UpperToLower THEN UpperToLower[s[i]] ELSE s[i]]

\* needle occurs in hay starting at position p
OccursAt(hay, needle, p) ==
  /\ p >= 1
  /\ p + Len(needle) - 1 <= Len(hay)
  /\ \A i \in 1..Len(needle) : hay[p + i - 1] = needle[i]

\* String.prototype.includes
includes(hay, needle) == \E p \in 1..(Len(hay) + 1) : OccursAt(hay, needle, p)

\* Matching one alternative of a pattern: literal pieces joined by ".*".
\* The pieces must occur in order without overlapping, from position from on.
RECURSIVE PiecesFrom(_, _, _)
PiecesFrom(text, pieces, from) ==
  IF pieces = <<>> THEN TRUE
  ELSE \E p \in from..(Len(text) + 1) :
         /\ OccursAt(text, Head(pieces), p)
         /\ PiecesFrom(text, Tail(pieces), p + Len(Head(pieces)))

\* RegExp.prototype.test for /alt1|alt2|.../i, alts a set of piece lists
test(alts, text) == \E a \in alts : PiecesFrom(toLowerCase(text), a, 1)

\* Source text of a regular expression, split at a separator
RECURSIVE Split(_, _, _)
Split(s, sep, acc) ==
  IF s = <<>> THEN <<acc>>
  ELSE IF OccursAt(s, sep, 1)
       THEN <<acc>> \o Split(SubSeq(s, Len(sep) + 1, Len(s)), sep, <<>>)
       ELSE Split(Tail(s), sep, Append(acc, Head(s)))

\* new RegExp(src, "i") throws a SyntaxError for an unterminated group or
\* class, an unmatched ")" or a quantifier with nothing to repeat.  The
\* patterns of the model use "|" and ".*" only, any other metacharacter
\* occurs in malformed patterns only.
RegExpThrows(src) ==
  \/ \E i \in 1..Len(src) : src[i] \in {"(", ")", "["}
  \/ \E i \in 1..Len(src) : src[i] = "*" /\ (i = 1 \/ src[i - 1] # ".")

\* new RegExp(src, "i"): the set of alternatives, each a list of literals
RegExp(src) ==
  LET alts == Split(toLowerCase(src), <<"|">>, <<>>)
  IN  { Split(alts[i], <<".", "*">>, <<>>) : i \in 1..Len(alts) }

(***************************************************************************)
(* Sample data: the strings that requests and rules carry                  *)
(***************************************************************************)
S_info == <<"i","n","f","o">>
S_warning == <<"w","a","r","n","i","n","g">>
S_error == <<"e","r","r","o","r">>
S_critical == <<"c","r","i","t","i","c","a","l">>
S_system == <<"s","y","s","t","e","m">>
S_auth == <<"a","u","t","h">>
S_network == <<"n","e","t","w","o","r","k">>
S_service_start == <<"s","e","r","v","i","c","e","_","s","t","a","r","t">>
S_failed_login == <<"f","a","i","l","e","d","_","l","o","g","i","n">>
S_timeout == <<"t","i","m","e","o","u","t">>
S_ip == <<"1","0",".","0",".","0",".","5">>
M_started == <<"S","e","r","v","i","c","e"," ","s","t","a","r","t","e","d">>
M_failed == <<"F","a","i","l","e","d"," ","l","o","g","i","n"," ","a","t","t","e","m","p","t">>
M_timeout == <<"C","o","n","n","e","c","t","i","o","n"," ","t","i","m","e","o","u","t">>
S_FAILED == <<"F","A","I","L","E","D">>
S_Failed == <<"F","a","i","l","e","d">>
S_paren == <<"(">>
S_firewall == <<"f","i","r","e","w","a","l","l">>
S_disk == <<"d","i","s","k">>
S_ids == <<"i","d","s">>
S_conn_block == <<"c","o","n","n","_","b","l","o","c","k">>
S_disk_error == <<"d","i","s","k","_","e","r","r","o","r">>
S_intrusion == <<"i","n","t","r","u","s","i","o","n">>
M_firewall == <<"F","i","r","e","w","a","l","l"," ","b","l","o","c","k","e","d"," ","c","o","n","n","e","c","t","i","o","n">>
M_disk == <<"D","i","s","k"," ","w","r","i","t","e"," ","e","r","r","o","r">>
S_disk_usage == <<"d","i","s","k","_","u","s","a","g","e">>
M_usage == <<"D","i","s","k"," ","u","s","a","g","e"," ","h","i","g","h">>
M_scan == <<"P","o","r","t"," ","s","c","a","n"," ","t","h","e","n"," ","S","Y","N"," ","f","l","o","o","d">>

(***************************************************************************)
(* JavaScript values                                                       *)
(***************************************************************************)
JStr(s) == [kind |-> "str", s |-> s]
JArr(items) == [kind |-> "arr", items |-> items]
JUndefined == [kind |-> "undefined"]
JNull == [kind |-> "null"]

\* Truthy taking the empty string for a value
TruthyIfDefined(v) == v.kind = "str"

\* truthiness of a string-or-undefined value: "" and undefined are falsy
Truthy(v) == v.kind = "str" /\ v.s # <<>>

RECURSIVE join(_)
join(items) ==
  IF items = <<>> THEN <<>>
  ELSE IF Len(items) = 1 THEN Head(items).s
  ELSE Head(items).s \o <<",">> \o join(Tail(items))

\* String(v)
String(v) ==
  CASE v.kind = "str" -> v.s
    [] v.kind = "arr" -> join(v.items)
    [] v.kind = "null" -> <<"n","u","l","l">>
    [] OTHER -> <<"u","n","d","e","f","i","n","e","d">>

(***************************************************************************)
(* Condition evaluation (DatabaseStorage.evaluateCondition and callers)    *)
(***************************************************************************)
getValue(cond, context) ==
  CASE cond.type = "ip" -> context.ip
    [] cond.type = "eventType" -> context.eventType
    [] cond.type = "severity" -> context.severity
    [] cond.type = "pattern" -> context.message
    [] cond.type = "source" -> context.source
    [] OTHER -> JUndefined

evaluateCondition(cond, context) ==
  LET value == getValue(cond, context)
  IN  IF ~Truthy(value) THEN FALSE
      ELSE CASE cond.operator = "equals" -> value = cond.value
             [] cond.operator = "contains" -> includes(value.s, String(cond.value))
             [] cond.operator = "matches" ->
                  IF RegExpThrows(String(cond.value)) THEN FALSE
                  ELSE test(RegExp(String(cond.value)), value.s)
             [] cond.operator = "in" ->
                  /\ cond.value.kind = "arr"
                  /\ \E i \in 1..Len(cond.value.items) : cond.value.items[i] = value
             [] OTHER -> FALSE

\* Array.prototype.every over the parsed condition list
evaluateConditions(conditions, context) ==
  \A i \in 1..Len(conditions) : evaluateCondition(conditions[i], context)

(***************************************************************************)
(* Heuristic detectors (DatabaseStorage.detectAnomalies)                   *)
(***************************************************************************)
patterns ==
  <<
     [src |-> <<"f","a","i","l","e","d",".","*","l","o","g","i","n","|","a","u","t","h","e","n","t","i","c","a","t","i","o","n",".","*","f","a","i","l","e","d">>,
      severity |-> "high"],
     [src |-> <<"p","o","r","t",".","*","s","c","a","n","|","s","c","a","n","n","i","n","g","|","r","e","c","o","n","n","a","i","s","s","a","n","c","e">>,
      severity |-> "high"],
     [src |-> <<"d","d","o","s","|","f","l","o","o","d","|","s","y","n",".","*","a","t","t","a","c","k">>,
      severity |-> "critical"],
     [src |-> <<"p","r","i","v","i","l","e","g","e",".","*","e","s","c","a","l","a","t","i","o","n","|","s","u","d","o","|","r","o","o","t",".","*","a","c","c","e","s","s">>,
      severity |-> "critical"],
     [src |-> <<"d","a","t","a",".","*","e","x","f","i","l","|","d","a","t","a",".","*","t","r","a","n","s","f","e","r",".","*","u","n","u","s","u","a","l","|","s","u","s","p","i","c","i","o","u","s",".","*","d","o","w","n","l","o","a","d">>,
      severity |-> "critical"],
     [src |-> <<"s","q","l",".","*","i","n","j","e","c","t","i","o","n","|","i","n","j","e","c","t","i","o","n","|","x","s","s","|","c","r","o","s","s",".","*","s","i","t","e">>,
      severity |-> "high"],
     [src |-> <<"f","i","r","e","w","a","l","l",".","*","b","l","o","c","k","|","b","l","o","c","k","e","d","|","d","e","n","i","e","d">>,
      severity |-> "medium"]
  >>

\* the RegExp objects of the list, built once
compiled == [i \in 1..Len(patterns) |-> RegExp(patterns[i].src)]

\* the for loop over patterns: index of the first detector that matches the
\* message or the event type, 0 when none does
RECURSIVE firstMatch(_, _)
firstMatch(log, i) ==
  IF i > Len(patterns) THEN 0
  ELSE IF test(compiled[i], log.message) \/ test(compiled[i], log.eventType)
       THEN i
       ELSE firstMatch(log, i + 1)

\* patternResult raising an alert whether or not a detector matches
patternResultAlways(log) ==
  LET i == firstMatch(log, 1)
  IN  [alertTriggered |-> TRUE,
       detectedSeverity |->
         IF i # 0 /\ patterns[i].severity \in {"critical", "high"}
         THEN patterns[i].severity ELSE "info"]

\* the values of alertTriggered and detectedSeverity after the loop
patternResult(log) ==
  LET i == firstMatch(log, 1)
  IN  IF i = 0 THEN [alertTriggered |-> FALSE, detectedSeverity |-> "info"]
      ELSE [alertTriggered |-> TRUE,
            detectedSeverity |->
              IF patterns[i].severity = "critical" \/ patterns[i].severity = "high"
              THEN patterns[i].severity ELSE "info"]

(***************************************************************************)
(* Request bodies and stored rules the model draws from                    *)
(***************************************************************************)
\* bodies that insertLogSchema accepts; body 0 stands for a rejected body
SampleLogs ==
  << [level |-> S_info, source |-> S_system, ipAddress |-> JNull,
      eventType |-> S_service_start, message |-> M_started],
     [level |-> S_warning, source |-> S_auth, ipAddress |-> JStr(S_ip),
      eventType |-> S_failed_login, message |-> M_failed],
     [level |-> S_critical, source |-> S_network, ipAddress |-> JStr(S_ip),
      eventType |-> S_timeout, message |-> M_timeout],
     [level |-> S_warning, source |-> S_firewall, ipAddress |-> JStr(S_ip),
      eventType |-> S_conn_block, message |-> M_firewall],
     [level |-> S_error, source |-> S_disk, ipAddress |-> JNull,
      eventType |-> S_disk_error, message |-> M_disk],
     [level |-> S_error, source |-> S_ids, ipAddress |-> JStr(S_ip),
      eventType |-> S_intrusion, message |-> M_scan],
     [level |-> S_warning, source |-> S_system, ipAddress |-> JNull,
      eventType |-> S_disk_usage, message |-> M_usage] >>

Bodies == 0..Len(SampleLogs)

\* the condition column is JSON text; json says what JSON.parse makes of it
SampleRules ==
  << [name |-> "catch-all", severity |-> "low", enabled |-> TRUE,
      condition |-> [json |-> "array", elems |-> <<>>]],
     [name |-> "failed-login", severity |-> "high", enabled |-> TRUE,
      condition |-> [json |-> "array", elems |->
         << [type |-> "eventType", operator |-> "equals",
             value |-> JStr(S_failed_login)] >>]],
     [name |-> "broken", severity |-> "medium", enabled |-> TRUE,
      condition |-> [json |-> "invalid"]],
     [name |-> "off", severity |-> "critical", enabled |-> FALSE,
      condition |-> [json |-> "array", elems |->
         << [type |-> "pattern", operator |-> "matches",
             value |-> JStr(S_FAILED)] >>]],
     [name |-> "not-a-list", severity |-> "high", enabled |-> TRUE,
      condition |-> [json |-> "object"]],
     [name |-> "auth-warning", severity |-> "medium", enabled |-> TRUE,
      condition |-> [json |-> "array", elems |->
         << [type |-> "source", operator |-> "equals", value |-> JStr(S_auth)],
            [type |-> "severity", operator |-> "equals", value |-> JStr(S_warning)] >>]] >>

\* answers of the remote scorer after clamping, confidence in tenths
ScorerAnswers ==
  { [isAnomalous |-> TRUE, confidence |-> 9],
    [isAnomalous |-> TRUE, confidence |-> 6],
    [isAnomalous |-> FALSE, confidence |-> 9] }

\* ScorerFallback reporting an anomaly
ScorerFallbackAnomalous == [isAnomalous |-> TRUE, confidence |-> 10]

\* what analyzeLogForAnomalies returns without a client or after an error
ScorerFallback == [isAnomalous |-> FALSE, confidence |-> 0]

\* the const aiAnalysis of detectAnomalies: not reached, awaited, or assigned
NotCalled == [state |-> "notCalled", isAnomalous |-> FALSE, confidence |-> 0]
Pending == [state |-> "pending", isAnomalous |-> FALSE, confidence |-> 0]
Returned(a) == [state |-> "returned", isAnomalous |-> a.isAnomalous,
                confidence |-> a.confidence]

(***************************************************************************)
(* State                                                                   *)
(***************************************************************************)
VARIABLES
  subscribers,    \* LogStreamManager.subscribers: id -> socket, NoSock if absent
  readyState,     \* ws.readyState of each socket, "NEW" before it is accepted
  subscriberId,   \* the id captured by the handlers of each connection
  inbox,          \* the messages written to each socket, in order
  writeFailed,    \* sockets on which a write has failed
  sent,           \* history of the broadcasts
  hpc,            \* POST /api/logs handler of each request: where it waits
  body,           \* the body of each request
  resp,           \* status code sent for each request, 0 while none is sent
  enabledRules,   \* evaluateRulesForLog: the rules it loaded
  ruleIdx,        \* evaluateRulesForLog: position of the for loop
  dpc,            \* detectAnomalies of each request: where it waits
  det,            \* detectAnomalies: alertTriggered and detectedSeverity
  aiAnalysis,     \* detectAnomalies: the call of analyzeLogForAnomalies and its result
  logs,           \* table logs: the ids (request numbers) stored
  alerts,         \* table alerts, in insertion order
  alertingRules,  \* table alerting_rules, in insertion order
  openai,         \* whether OPENAI_API_KEY was set when the process started
  mpc,            \* POST /api/alerts handler of each manual request
  errs,           \* errors caught and logged: <<where, request>>
  evalIn,         \* evaluateCondition: the arguments cond and context of a call
  returned,       \* evaluateCondition: <<>> before the call returns, then <<result>>
  phase,          \* the component that calls useLogStream: initial, mounted, unmounted
  wsState,        \* readyState of each WebSocket the page creates, "NEW" before
  wsOrigin,       \* which code created each WebSocket: the effect or the timer
  websocket,      \* the socket that the cleanup of the last effect run closes over
  ws,             \* useState ws
  isConnected,    \* useState isConnected
  error,          \* useState error
  timers,         \* setTimeout callbacks of onclose that are pending
  dispatched      \* messages the hook has passed to its callbacks: <<socket, type>>

vars == <<subscribers, readyState, subscriberId, inbox, writeFailed, sent,
          hpc, body, resp, enabledRules, ruleIdx, dpc, det, aiAnalysis, logs,
          alerts, alertingRules, openai, mpc, errs, evalIn, returned, phase,
          wsState, wsOrigin, websocket, ws, isConnected, error, timers, dispatched>>

sockVars == <<subscribers, readyState, subscriberId>>
wireVars == <<inbox, writeFailed, sent>>
reqVars == <<hpc, body, resp, enabledRules, ruleIdx>>
detVars == <<dpc, det, aiAnalysis>>
evalVars == <<evalIn, returned>>
clientVars == <<phase, wsState, wsOrigin, websocket, ws, isConnected, error, timers,
                dispatched>>

Manuals == 1..MaxManual

InitServer ==
  /\ subscribers = [i \in Ids |-> NoSock]
  /\ readyState = [s \in Socks |-> "NEW"]
  /\ subscriberId = [s \in Socks |-> NoId]
  /\ inbox = [s \in Socks |-> <<>>]
  /\ writeFailed = {}
  /\ sent = <<>>
  /\ hpc = [r \in Reqs |-> "idle"]
  /\ body = [r \in Reqs |-> 0]
  /\ resp = [r \in Reqs |-> 0]
  /\ enabledRules = [r \in Reqs |-> <<>>]
  /\ ruleIdx = [r \in Reqs |-> 0]
  /\ dpc = [r \in Reqs |-> "none"]
  /\ det = [r \in Reqs |-> [alertTriggered |-> FALSE, detectedSeverity |-> "info"]]
  /\ aiAnalysis = [r \in Reqs |-> NotCalled]
  /\ logs = {}
  /\ alerts = <<>>
  /\ alertingRules = <<>>
  /\ openai \in BOOLEAN
  /\ mpc = [m \in Manuals |-> "idle"]
  /\ errs = {}

\* the page before the component that calls useLogStream is rendered
InitClient ==
  /\ phase = "initial"
  /\ wsState = [s \in ClientSocks |-> "NEW"]
  /\ wsOrigin = [s \in ClientSocks |-> "none"]
  /\ websocket = NoClientSock
  /\ ws = NoClientSock
  /\ isConnected = FALSE
  /\ error = "null"
  /\ timers = 0
  /\ dispatched = {}

Init ==
  /\ InitServer
  /\ InitClient
  /\ evalIn = [cond |-> SampleRules[2].condition.elems[1],
               context |-> [ip |-> JStr(S_ip), eventType |-> JStr(S_failed_login),
                            severity |-> JStr(S_warning), message |-> JStr(M_failed),
                            source |-> JStr(S_auth)]]
  /\ returned = <<>>

(***************************************************************************)
(* LogStreamManager (server/websocket.ts)                                  *)
(***************************************************************************)
\* Map.prototype.delete
MapDelete(map, id) == [map EXCEPT ![id] = NoSock]

\* wsServer.on("connection"): Math.random() may yield any id
Connection(s, id) ==
  /\ readyState[s] = "NEW"
  /\ \A t \in Socks : t < s => readyState[t] # "NEW"
  /\ readyState' = [readyState EXCEPT ![s] = "OPEN"]
  /\ subscriberId' = [subscriberId EXCEPT ![s] = id]
  /\ subscribers' = [subscribers EXCEPT ![id] = s]
  /\ UNCHANGED <<evalVars, clientVars, wireVars, reqVars, detVars, logs, alerts, alertingRules, openai, mpc, errs>>

\* the closing handshake starts: readyState is CLOSING until "close" is emitted
Closing(s) ==
  /\ readyState[s] = "OPEN"
  /\ readyState' = [readyState EXCEPT ![s] = "CLOSING"]
  /\ UNCHANGED <<evalVars, clientVars, subscribers, subscriberId, wireVars, reqVars, detVars, logs,
                 alerts, alertingRules, openai, mpc, errs>>

\* ws.on("close")
OnClose(s) ==
  /\ readyState[s] \in {"OPEN", "CLOSING"}
  /\ readyState' = [readyState EXCEPT ![s] = "CLOSED"]
  /\ subscribers' = MapDelete(subscribers, subscriberId[s])
  /\ UNCHANGED <<evalVars, clientVars, subscriberId, wireVars, reqVars, detVars, logs, alerts,
                 alertingRules, openai, mpc, errs>>

\* OnError that leaves the entry in the map
OnErrorNoDelete(s) ==
  /\ readyState[s] = "OPEN"
  /\ readyState' = [readyState EXCEPT ![s] = "CLOSING"]
  /\ errs' = errs \cup {<<"WebSocket error", s, 0>>}
  /\ UNCHANGED <<evalVars, clientVars, subscribers, subscriberId, wireVars, reqVars, detVars, logs, alerts,
                 alertingRules, openai, mpc>>

\* ws.on("error"): the socket is CLOSING when "error" is emitted, "close" follows
OnError(s) ==
  /\ readyState[s] = "OPEN"
  /\ readyState' = [readyState EXCEPT ![s] = "CLOSING"]
  /\ subscribers' = MapDelete(subscribers, subscriberId[s])
  /\ errs' = errs \cup {<<"WebSocket error", s, 0>>}
  /\ UNCHANGED <<evalVars, clientVars, subscriberId, wireVars, reqVars, detVars, logs, alerts,
                 alertingRules, openai, mpc>>

\* the sockets the registry holds
Registered == { s \in Socks : \E i \in Ids : subscribers[i] = s }

\* the sockets the registry holds in state OPEN
OpenSubscribers ==
  { s \in Socks : readyState[s] = "OPEN" /\ \E i \in Ids : subscribers[i] = s }

\* sendCount without the test of ws.readyState
sendCountAnyState(s) == Cardinality({ i \in Ids : subscribers[i] = s })

\* subscribers.forEach: how often ws.send is called on socket s
sendCount(s) ==
  Cardinality({ i \in Ids : subscribers[i] = s /\ readyState[s] = "OPEN" })

\* wsSend putting the message in front of the queue
wsSendFront(queue, m) == <<m>> \o queue

\* ws.send(message) on socket s: the message is queued behind the earlier ones
wsSend(queue, m) == Append(queue, m)

RECURSIVE sendTimes(_, _, _)
sendTimes(queue, m, n) ==
  IF n = 0 THEN queue ELSE sendTimes(wsSend(queue, m), m, n - 1)

\* the sets of sockets whose write may fail in one broadcast: a socket whose
\* write failed before fails again
FailSets == { F \in SUBSET OpenSubscribers : (writeFailed \cap OpenSubscribers) \subseteq F }

\* the record of a broadcast in the history
sentRecord(type, data, F) ==
  [type |-> type, data |-> data, reg |-> Registered, open |-> OpenSubscribers,
   sends |-> [s \in Socks |-> sendCount(s)], failed |-> F]

\* broadcast deleting the entries it finds not OPEN
broadcastEvicting(type, data, F) ==
  LET m == [type |-> type, data |-> data] IN
  /\ inbox' = [s \in Socks |->
                 IF s \in F THEN inbox[s] ELSE sendTimes(inbox[s], m, sendCount(s))]
  /\ writeFailed' = writeFailed \cup F
  /\ subscribers' = [i \in Ids |->
        IF subscribers[i] # NoSock /\ readyState[subscribers[i]] # "OPEN"
        THEN NoSock ELSE subscribers[i]]
  /\ sent' = Append(sent, sentRecord(type, data, F))

\* broadcast whose loop ends at the first write that fails
broadcastStopAtFailure(type, data, F) ==
  LET m == [type |-> type, data |-> data] IN
  /\ inbox' = [s \in Socks |->
                 IF s \in F \/ \E f \in F : f < s THEN inbox[s]
                 ELSE sendTimes(inbox[s], m, sendCount(s))]
  /\ writeFailed' = writeFailed \cup F
  /\ subscribers' = subscribers
  /\ sent' = Append(sent, sentRecord(type, data, F))

\* broadcastLogCreated / broadcastAlertCreated: the forEach loop sends to the
\* entries it finds OPEN and leaves the map as it is; wsServer is set, since
\* initialize has run before the server listens
broadcast(type, data, F) ==
  LET m == [type |-> type, data |-> data] IN
  /\ inbox' = [s \in Socks |->
                 IF s \in F THEN inbox[s] ELSE sendTimes(inbox[s], m, sendCount(s))]
  /\ writeFailed' = writeFailed \cup F
  /\ subscribers' = subscribers
  /\ sent' = Append(sent, sentRecord(type, data, F))

broadcastLogCreated(log, F) == broadcast("log_created", log, F)

broadcastAlertCreated(alert, F) == broadcast("alert_created", alert, F)

(***************************************************************************)
(* DatabaseStorage (server/storage-db.ts)                                  *)
(***************************************************************************)
\* the row that insert(logs).returning() yields for request r
LogOf(r) == SampleLogs[body[r]]

\* log.ipAddress || null
ipOrNull(log) == IF Truthy(log.ipAddress) THEN log.ipAddress ELSE JNull

\* createAlert: the row that insert(alerts).returning() yields; the columns
\* acknowledgedAt and resolvedAt are not set by an insert
\* origin, log and rule record who asked for the row
createAlert(insertAlert, origin, r, k) ==
  [severity |-> insertAlert.severity, title |-> insertAlert.title,
   source |-> insertAlert.source, ipAddress |-> insertAlert.ipAddress,
   status |-> insertAlert.status, acknowledgedAt |-> JNull, resolvedAt |-> JNull,
   origin |-> origin, log |-> r, rule |-> k]

\* a row of table alerting_rules is written as the number of its sample
RuleOf(k) == SampleRules[k]

\* getAlertingRules: orderBy(desc(createdAt))
getAlertingRules ==
  [i \in 1..Len(alertingRules) |-> alertingRules[Len(alertingRules) + 1 - i]]

\* filterEnabled keeping every rule
filterAll(rules) == rules

\* rules.filter(r => r.enabled)
filterEnabled(rules) == SelectSeq(rules, LAMBDA k : RuleOf(k).enabled)

\* the context evaluateRulesForLog builds from the log
contextOf(log) ==
  [ip |-> IF Truthy(log.ipAddress) THEN log.ipAddress ELSE JUndefined,
   eventType |-> JStr(log.eventType),
   severity |-> JStr(log.level),
   message |-> JStr(log.message),
   source |-> JStr(log.source)]

\* the body of the try block up to the if: JSON.parse throws a SyntaxError on
\* text that is not JSON, and every() throws a TypeError on a parsed value
\* that is not an array
ruleThrows(rule) == rule.condition.json # "array"

ruleMatches(rule, log) ==
  /\ ~ruleThrows(rule)
  /\ evaluateConditions(rule.condition.elems, contextOf(log))

\* ruleMatches and patternResult on the samples, computed once
matchTable ==
  [k \in 1..Len(SampleRules) |->
     [b \in 1..Len(SampleLogs) |-> ruleMatches(SampleRules[k], SampleLogs[b])]]

detectTable == [b \in 1..Len(SampleLogs) |-> patternResult(SampleLogs[b])]

\* the for loop from position i on: the position of the next rule whose alert
\* is to be created, 0 when the loop runs to its end; b is the body of the log
RECURSIVE nextAlert(_, _, _)
nextAlert(rules, i, b) ==
  IF i > Len(rules) THEN 0
  ELSE IF matchTable[rules[i]][b] THEN i
  ELSE nextAlert(rules, i + 1, b)

\* the rules between positions i and j whose evaluation threw (logged)
thrown(rules, i, j, r) ==
  { <<"Error evaluating rule", r, k>> :
      k \in { k \in i..j : ruleThrows(RuleOf(rules[k])) } }

\* ruleAlert asking for an alert that is acknowledged already
ruleAlertAcknowledged(rule, log) ==
  [severity |-> rule.severity, title |-> rule.name, source |-> log.source,
   ipAddress |-> ipOrNull(log), status |-> "acknowledged"]

\* the insertAlert that evaluateRulesForLog passes to createAlert
ruleAlert(rule, log) ==
  [severity |-> rule.severity, title |-> rule.name, source |-> log.source,
   ipAddress |-> ipOrNull(log), status |-> "active"]

anomalyAlert(d, log) ==
  [severity |-> d.detectedSeverity, title |-> <<"Anomaly Detected", log.eventType>>,
   source |-> log.source, ipAddress |-> ipOrNull(log), status |-> "active"]

\* afterScorer escalating from a confidence of 0.6 on
afterScorerAtLeast(d, a) ==
  IF a.isAnomalous /\ a.confidence >= 6
  THEN [alertTriggered |-> TRUE, detectedSeverity |-> "critical"]
  ELSE d

\* the if after the scorer call
afterScorer(d, a) ==
  IF a.isAnomalous /\ a.confidence > 6
  THEN [alertTriggered |-> TRUE, detectedSeverity |-> "critical"]
  ELSE d

\* needsScorer without the test of the level
needsScorerAlways(log) == log.level = log.level

\* the if before the call of analyzeLogForAnomalies
needsScorer(log) == log.level = S_error \/ log.level = S_critical

\* createLog returning the log without calling detectAnomalies
detectNotStarted(r, log) == UNCHANGED detVars

\* detectAnomalies from its start to its first wait
detectStart(r, log) ==
  LET d == detectTable[body[r]] IN
  IF needsScorer(log) /\ openai
  THEN /\ dpc' = [dpc EXCEPT ![r] = "scoring"]
       /\ det' = [det EXCEPT ![r] = d]
       /\ aiAnalysis' = [aiAnalysis EXCEPT ![r] = Pending]
  ELSE LET d2 == IF needsScorer(log) THEN afterScorer(d, ScorerFallback) ELSE d IN
       /\ dpc' = [dpc EXCEPT ![r] = IF d2.alertTriggered THEN "persisting" ELSE "done"]
       /\ det' = [det EXCEPT ![r] = d2]
       /\ aiAnalysis' = [aiAnalysis EXCEPT ![r] =
                          IF needsScorer(log) THEN Returned(ScorerFallback) ELSE NotCalled]

\* analyzeLogForAnomalies returns the answer of the scorer
ScorerReturns(r, a) ==
  /\ dpc[r] = "scoring"
  /\ LET d2 == afterScorer(det[r], a) IN
       /\ dpc' = [dpc EXCEPT ![r] = IF d2.alertTriggered THEN "persisting" ELSE "done"]
       /\ det' = [det EXCEPT ![r] = d2]
  /\ aiAnalysis' = [aiAnalysis EXCEPT ![r] = Returned(a)]
  /\ UNCHANGED <<evalVars, clientVars, sockVars, wireVars, reqVars, logs, alerts, alertingRules, openai, mpc, errs>>

\* the request to the scorer or the parsing of its reply throws: the catch
\* block of analyzeLogForAnomalies logs the error and returns the fallback
ScorerFailed(r) ==
  /\ dpc[r] = "scoring"
  /\ LET d2 == afterScorer(det[r], ScorerFallback) IN
       /\ dpc' = [dpc EXCEPT ![r] = IF d2.alertTriggered THEN "persisting" ELSE "done"]
       /\ det' = [det EXCEPT ![r] = d2]
  /\ aiAnalysis' = [aiAnalysis EXCEPT ![r] = Returned(ScorerFallback)]
  /\ errs' = errs \cup {<<"OpenAI analysis error", r, 0>>}
  /\ UNCHANGED <<evalVars, clientVars, sockVars, wireVars, reqVars, logs, alerts, alertingRules, openai, mpc>>

\* AnomalyAlertInserted with one alert for the pattern and one for the scorer
AnomalyAlertInsertedTwice(r) ==
  /\ dpc[r] = "persisting"
  /\ alerts' = alerts \o
       << createAlert(anomalyAlert(det[r], LogOf(r)), "heuristic", r, 0),
          createAlert(anomalyAlert(det[r], LogOf(r)), "heuristic", r, 0) >>
  /\ dpc' = [dpc EXCEPT ![r] = "done"]
  /\ UNCHANGED <<evalVars, clientVars, sockVars, wireVars, reqVars, det, aiAnalysis, logs,
                 alertingRules, openai, mpc, errs>>

\* detectAnomalies: the insert of createAlert returns
AnomalyAlertInserted(r) ==
  /\ dpc[r] = "persisting"
  /\ alerts' = Append(alerts, createAlert(anomalyAlert(det[r], LogOf(r)), "heuristic", r, 0))
  /\ dpc' = [dpc EXCEPT ![r] = "done"]
  /\ UNCHANGED <<evalVars, clientVars, sockVars, wireVars, reqVars, det, aiAnalysis, logs, alertingRules, openai,
                 mpc, errs>>

\* detectAnomalies: the insert of createAlert fails, .catch logs the error
AnomalyAlertFailed(r) ==
  /\ dpc[r] = "persisting"
  /\ dpc' = [dpc EXCEPT ![r] = "failed"]
  /\ errs' = errs \cup {<<"Anomaly detection error", r, 0>>}
  /\ UNCHANGED <<evalVars, clientVars, sockVars, wireVars, reqVars, det, aiAnalysis, logs, alerts, alertingRules,
                 openai, mpc>>

(***************************************************************************)
(* POST /api/logs (server/routes.ts)                                       *)
(***************************************************************************)
\* PostLogs inserting the body before it is validated
PostLogsInsertFirst(r, b) ==
  /\ hpc[r] = "idle"
  /\ \A q \in Reqs : q < r => hpc[q] # "idle"
  /\ body' = [body EXCEPT ![r] = b]
  /\ logs' = logs \cup {r}
  /\ IF b = 0
     THEN /\ resp' = [resp EXCEPT ![r] = 400]
          /\ hpc' = [hpc EXCEPT ![r] = "done"]
     ELSE /\ resp' = resp
          /\ hpc' = [hpc EXCEPT ![r] = "inserting"]
  /\ UNCHANGED <<evalVars, clientVars, sockVars, wireVars, enabledRules, ruleIdx, detVars,
                 alerts, alertingRules, openai, mpc, errs>>

\* the request arrives: insertLogSchema.parse, then createLog issues the insert
PostLogs(r, b) ==
  /\ hpc[r] = "idle"
  /\ \A q \in Reqs : q < r => hpc[q] # "idle"
  /\ body' = [body EXCEPT ![r] = b]
  /\ IF b = 0
     THEN /\ resp' = [resp EXCEPT ![r] = 400]
          /\ hpc' = [hpc EXCEPT ![r] = "done"]
     ELSE /\ resp' = resp
          /\ hpc' = [hpc EXCEPT ![r] = "inserting"]
  /\ UNCHANGED <<evalVars, clientVars, sockVars, wireVars, enabledRules, ruleIdx, detVars, logs, alerts,
                 alertingRules, openai, mpc, errs>>

\* the insert of createLog fails: the handler's catch answers 400
LogInsertFailed(r) ==
  /\ hpc[r] = "inserting"
  /\ resp' = [resp EXCEPT ![r] = 400]
  /\ hpc' = [hpc EXCEPT ![r] = "done"]
  /\ UNCHANGED <<evalVars, clientVars, sockVars, wireVars, body, enabledRules, ruleIdx, detVars, logs,
                 alerts, alertingRules, openai, mpc, errs>>

\* the insert of createLog returns: createLog starts detectAnomalies and
\* returns the log, the handler broadcasts it and evaluateRulesForLog issues
\* the query of getAlertingRules
LogInserted(r, F) ==
  /\ hpc[r] = "inserting"
  /\ F \in FailSets
  /\ logs' = logs \cup {r}
  /\ detectStart(r, LogOf(r))
  /\ broadcastLogCreated(r, F)
  /\ hpc' = [hpc EXCEPT ![r] = "loadingRules"]
  /\ UNCHANGED <<evalVars, clientVars, readyState, subscriberId, body, resp, enabledRules, ruleIdx, alerts, alertingRules,
                 openai, mpc, errs>>

\* getAlertingRules fails: the error leaves evaluateRulesForLog and the
\* handler's catch answers 400
RulesLoadFailed(r) ==
  /\ hpc[r] = "loadingRules"
  /\ resp' = [resp EXCEPT ![r] = 400]
  /\ hpc' = [hpc EXCEPT ![r] = "done"]
  /\ UNCHANGED <<evalVars, clientVars, sockVars, wireVars, body, enabledRules, ruleIdx, detVars, logs,
                 alerts, alertingRules, openai, mpc, errs>>

\* runRules answering 201 before the loop has ended
runRulesRespondFirst(r, rules, i) ==
  LET j == nextAlert(rules, i, body[r]) IN
  /\ enabledRules' = [enabledRules EXCEPT ![r] = rules]
  /\ ruleIdx' = [ruleIdx EXCEPT ![r] = j]
  /\ resp' = [resp EXCEPT ![r] = 201]
  /\ hpc' = [hpc EXCEPT ![r] = IF j = 0 THEN "done" ELSE "ruleAlert"]

\* runRules leaving the loop after the first alert
runRulesFirstMatchWins(r, rules, i) ==
  LET j == IF i = 1 THEN nextAlert(rules, 1, body[r]) ELSE 0 IN
  /\ enabledRules' = [enabledRules EXCEPT ![r] = rules]
  /\ ruleIdx' = [ruleIdx EXCEPT ![r] = j]
  /\ IF j = 0
     THEN /\ resp' = [resp EXCEPT ![r] = 201]
          /\ hpc' = [hpc EXCEPT ![r] = "done"]
     ELSE /\ resp' = resp
          /\ hpc' = [hpc EXCEPT ![r] = "ruleAlert"]

\* runRules without the try block: a rule that throws ends the loop and the
\* handler's catch answers 400
runRulesStopAtThrow(r, rules, i) ==
  LET j0 == nextAlert(rules, i, body[r])
      stop == \E k \in i..(IF j0 = 0 THEN Len(rules) ELSE j0) : ruleThrows(RuleOf(rules[k]))
      j == IF stop THEN 0 ELSE j0 IN
  /\ enabledRules' = [enabledRules EXCEPT ![r] = rules]
  /\ ruleIdx' = [ruleIdx EXCEPT ![r] = j]
  /\ IF j = 0
     THEN /\ resp' = [resp EXCEPT ![r] = IF stop THEN 400 ELSE 201]
          /\ hpc' = [hpc EXCEPT ![r] = "done"]
     ELSE /\ resp' = resp
          /\ hpc' = [hpc EXCEPT ![r] = "ruleAlert"]

\* the for loop of evaluateRulesForLog runs from position i to its next wait
\* (the insert of a matching rule's alert) or to its end, where the handler
\* answers 201
runRules(r, rules, i) ==
  LET j == nextAlert(rules, i, body[r]) IN
  /\ enabledRules' = [enabledRules EXCEPT ![r] = rules]
  /\ ruleIdx' = [ruleIdx EXCEPT ![r] = j]
  /\ IF j = 0
     THEN /\ resp' = [resp EXCEPT ![r] = 201]
          /\ hpc' = [hpc EXCEPT ![r] = "done"]
     ELSE /\ resp' = resp
          /\ hpc' = [hpc EXCEPT ![r] = "ruleAlert"]

\* getAlertingRules returns
RulesLoaded(r) ==
  /\ hpc[r] = "loadingRules"
  /\ LET rules == filterEnabled(getAlertingRules) IN
       /\ runRules(r, rules, 1)
       /\ errs' = errs \cup
            thrown(rules, 1, IF ruleIdx'[r] = 0 THEN Len(rules) ELSE ruleIdx'[r], r)
  /\ UNCHANGED <<evalVars, clientVars, sockVars, wireVars, body, detVars, logs, alerts, alertingRules,
                 openai, mpc>>

\* evaluateRulesForLog: the insert of createAlert returns, the loop goes on
RuleAlertInserted(r) ==
  /\ hpc[r] = "ruleAlert"
  /\ alerts' = Append(alerts,
        createAlert(ruleAlert(RuleOf(enabledRules[r][ruleIdx[r]]), LogOf(r)), "rule", r,
                    enabledRules[r][ruleIdx[r]]))
  /\ runRules(r, enabledRules[r], ruleIdx[r] + 1)
  /\ errs' = errs \cup
       thrown(enabledRules[r], ruleIdx[r] + 1,
              IF ruleIdx'[r] = 0 THEN Len(enabledRules[r]) ELSE ruleIdx'[r], r)
  /\ UNCHANGED <<evalVars, clientVars, sockVars, wireVars, body, detVars, logs, alertingRules, openai, mpc>>

\* evaluateRulesForLog: the insert of createAlert fails inside the try block
RuleAlertFailed(r) ==
  /\ hpc[r] = "ruleAlert"
  /\ runRules(r, enabledRules[r], ruleIdx[r] + 1)
  /\ errs' = errs \cup {<<"Error evaluating rule", r, ruleIdx[r]>>} \cup
       thrown(enabledRules[r], ruleIdx[r] + 1,
              IF ruleIdx'[r] = 0 THEN Len(enabledRules[r]) ELSE ruleIdx'[r], r)
  /\ UNCHANGED <<evalVars, clientVars, sockVars, wireVars, body, detVars, logs, alerts, alertingRules,
                 openai, mpc>>

(***************************************************************************)
(* POST /api/alerts and POST /api/rules (server/routes.ts)                 *)
(***************************************************************************)
manualAlert ==
  [severity |-> "high", title |-> "manual", source |-> S_network,
   ipAddress |-> JNull, status |-> "active"]

\* POST /api/alerts arrives with a valid body: createAlert issues the insert
PostAlerts(m) ==
  /\ mpc[m] = "idle"
  /\ \A q \in Manuals : q < m => mpc[q] # "idle"
  /\ mpc' = [mpc EXCEPT ![m] = "inserting"]
  /\ UNCHANGED <<evalVars, clientVars, sockVars, wireVars, reqVars, detVars, logs, alerts, alertingRules,
                 openai, errs>>

\* the insert returns: the handler broadcasts the alert and answers 201
ManualAlertInserted(m, F) ==
  /\ mpc[m] = "inserting"
  /\ F \in FailSets
  /\ alerts' = Append(alerts, createAlert(manualAlert, "manual", 0, 0))
  /\ broadcastAlertCreated(Len(alerts) + 1, F)
  /\ mpc' = [mpc EXCEPT ![m] = "done"]
  /\ UNCHANGED <<evalVars, clientVars, readyState, subscriberId, reqVars, detVars, logs, alertingRules, openai, errs>>

\* POST /api/rules with a valid body: createAlertingRule inserts the row
PostRules(k) ==
  /\ Len(alertingRules) < MaxRules
  /\ alertingRules' = Append(alertingRules, k)
  /\ UNCHANGED <<evalVars, clientVars, sockVars, wireVars, reqVars, detVars, logs, alerts, openai, mpc, errs>>

(***************************************************************************)
(* The life cycle of an alert (server/routes.ts, server/storage-db.ts)     *)
(***************************************************************************)
\* new Date(): the model keeps that a time was written, not which one
JDate == [kind |-> "date"]

\* insertAlertSchema omits id, timestamp, acknowledgedAt and resolvedAt and
\* keeps the column status, a varchar(20) with default 'active'
Statuses == {"active", "acknowledged", "resolved"}

manualAlertAs(status) == [manualAlert EXCEPT !.status = status]

\* POST /api/alerts whose body names a status: the insert returns, the handler
\* broadcasts the alert and answers 201
ManualAlertInsertedAs(m, F, status) ==
  /\ mpc[m] = "inserting"
  /\ F \in FailSets
  /\ status \in Statuses
  /\ alerts' = Append(alerts, createAlert(manualAlertAs(status), "manual", 0, 0))
  /\ broadcastAlertCreated(Len(alerts) + 1, F)
  /\ mpc' = [mpc EXCEPT ![m] = "done"]
  /\ UNCHANGED <<evalVars, clientVars, readyState, subscriberId, reqVars, detVars, logs, alertingRules, openai, errs>>

\* set({ status: "acknowledged", acknowledgedAt: new Date() }).where(eq(alerts.id, id))
acknowledgeAlert(row) == [row EXCEPT !.status = "acknowledged", !.acknowledgedAt = JDate]

\* set({ status: "resolved", resolvedAt: new Date() }).where(eq(alerts.id, id))
resolveAlert(row) == [row EXCEPT !.status = "resolved", !.resolvedAt = JDate]

\* PATCH /api/alerts/:id/acknowledge for a stored alert: the update returns the
\* row and the handler answers with it (an unknown id changes nothing: 404)
PatchAcknowledge(a) ==
  /\ a \in 1..Len(alerts)
  /\ alerts' = [alerts EXCEPT ![a] = acknowledgeAlert(alerts[a])]
  /\ UNCHANGED <<evalVars, clientVars, sockVars, wireVars, reqVars, detVars, logs, alertingRules, openai,
                 mpc, errs>>

\* PATCH /api/alerts/:id/resolve for a stored alert
PatchResolve(a) ==
  /\ a \in 1..Len(alerts)
  /\ alerts' = [alerts EXCEPT ![a] = resolveAlert(alerts[a])]
  /\ UNCHANGED <<evalVars, clientVars, sockVars, wireVars, reqVars, detVars, logs, alertingRules, openai,
                 mpc, errs>>

(***************************************************************************)
(* evaluateCondition called on its own (server/storage-db.ts)              *)
(***************************************************************************)
\* RuleCondition as JSON.parse yields it: any selector, operator and value
EvalTypes == {"ip", "eventType", "pattern", "geo"}
EvalOperators == {"equals", "contains", "matches", "in", "startsWith"}
EvalValues ==
  {JStr(<<>>), JStr(S_failed_login), JStr(S_Failed), JStr(S_paren),
   JArr(<<>>), JArr(<<JStr(S_Failed)>>), JArr(<<JStr(S_failed_login), JStr(S_timeout)>>)}

EvalConds == [type : EvalTypes, operator : EvalOperators, value : EvalValues]

\* RuleEvaluationContext: ip is undefined for a log without address, the other
\* fields are strings that insertLogSchema lets be empty
EvalContexts ==
  [ip : {JUndefined, JStr(S_ip)},
   eventType : {JStr(<<>>), JStr(S_failed_login)},
   severity : {JStr(S_warning)},
   message : {JStr(<<>>), JStr(M_failed)},
   source : {JStr(S_auth)}]

InitEval ==
  /\ InitServer
  /\ InitClient
  /\ evalIn \in [cond : EvalConds, context : EvalContexts]
  /\ returned = <<>>

\* one call of evaluateCondition returns
Evaluate ==
  /\ returned = <<>>
  /\ returned' = <<evaluateCondition(evalIn.cond, evalIn.context)>>
  /\ UNCHANGED <<sockVars, wireVars, reqVars, detVars, logs, alerts, alertingRules,
                 openai, mpc, errs, evalIn, clientVars>>

(***************************************************************************)
(* useLogStream (client/src/pages/login.tsx)                               *)
(***************************************************************************)
MessageTypes == {"log_created", "alert_created"}

\* new WebSocket(url): the next socket the page has not created yet
fresh(s) == wsState[s] = "NEW" /\ \A q \in ClientSocks : q < s => wsState[q] # "NEW"

\* the function the effect returns: close() only if the socket is OPEN
cleanup(st) ==
  IF websocket # NoClientSock /\ st[websocket] = "OPEN"
  THEN [st EXCEPT ![websocket] = "CLOSING"]
  ELSE st

\* the body of the effect: a socket with the four handlers, setWs(websocket)
effect(s, st) ==
  /\ wsState' = [st EXCEPT ![s] = "CONNECTING"]
  /\ wsOrigin' = [wsOrigin EXCEPT ![s] = "effect"]
  /\ websocket' = s
  /\ ws' = s

\* a state setter called after the component is gone changes nothing
setState(current, value) == IF phase = "mounted" THEN value ELSE current

\* the component renders for the first time and the effect runs
Mount(s) ==
  /\ phase = "initial"
  /\ fresh(s)
  /\ phase' = "mounted"
  /\ effect(s, wsState)
  /\ UNCHANGED <<sockVars, wireVars, reqVars, detVars, logs, alerts, alertingRules,
                 openai, mpc, errs, evalVars, isConnected, error, timers, dispatched>>

\* a render with a new onLogCreated or onAlertCreated: cleanup, then the effect
EffectRerun(s) ==
  /\ phase = "mounted"
  /\ fresh(s)
  /\ effect(s, cleanup(wsState))
  /\ UNCHANGED <<sockVars, wireVars, reqVars, detVars, logs, alerts, alertingRules,
                 openai, mpc, errs, evalVars, phase, isConnected, error, timers,
                 dispatched>>

\* the component is removed: the cleanup of the last effect run
Unmount ==
  /\ phase = "mounted"
  /\ phase' = "unmounted"
  /\ wsState' = cleanup(wsState)
  /\ UNCHANGED <<sockVars, wireVars, reqVars, detVars, logs, alerts, alertingRules,
                 openai, mpc, errs, evalVars, wsOrigin, websocket, ws, isConnected,
                 error, timers, dispatched>>

\* the "open" event of a socket: onopen, if the socket has handlers
ClientOpen(s) ==
  /\ wsState[s] = "CONNECTING"
  /\ wsState' = [wsState EXCEPT ![s] = "OPEN"]
  /\ IF wsOrigin[s] = "effect"
     THEN /\ isConnected' = setState(isConnected, TRUE)
          /\ error' = setState(error, "null")
     ELSE UNCHANGED <<isConnected, error>>
  /\ UNCHANGED <<sockVars, wireVars, reqVars, detVars, logs, alerts, alertingRules,
                 openai, mpc, errs, evalVars, phase, wsOrigin, websocket, ws, timers,
                 dispatched>>

\* a "message" event carrying log_created or alert_created: onmessage
ClientMessage(s, type) ==
  /\ wsState[s] = "OPEN"
  /\ dispatched' = IF wsOrigin[s] = "effect" THEN dispatched \cup {<<s, type>>}
                   ELSE dispatched
  /\ UNCHANGED <<sockVars, wireVars, reqVars, detVars, logs, alerts, alertingRules,
                 openai, mpc, errs, evalVars, phase, wsState, wsOrigin, websocket, ws,
                 isConnected, error, timers>>

\* the connection is closed, by the server, by a failure (the "error" event
\* comes first) or at the end of close(): onerror, then onclose and setTimeout
ClientClosed(s, failed) ==
  /\ wsState[s] \in {"CONNECTING", "OPEN", "CLOSING"}
  /\ wsState' = [wsState EXCEPT ![s] = "CLOSED"]
  /\ IF wsOrigin[s] = "effect"
     THEN /\ isConnected' = setState(isConnected, FALSE)
          /\ error' = IF failed THEN setState(error, "WebSocket connection error")
                      ELSE error
          /\ timers' = timers + 1
     ELSE UNCHANGED <<isConnected, error, timers>>
  /\ UNCHANGED <<sockVars, wireVars, reqVars, detVars, logs, alerts, alertingRules,
                 openai, mpc, errs, evalVars, phase, wsOrigin, websocket, dispatched, ws>>

\* three seconds later the callback of setTimeout runs: new WebSocket(url) and
\* setWs(newWs), no handler is set on newWs
ReconnectTimer(s) ==
  /\ timers > 0
  /\ fresh(s)
  /\ timers' = timers - 1
  /\ wsState' = [wsState EXCEPT ![s] = "CONNECTING"]
  /\ wsOrigin' = [wsOrigin EXCEPT ![s] = "timer"]
  /\ ws' = setState(ws, s)
  /\ UNCHANGED <<sockVars, wireVars, reqVars, detVars, logs, alerts, alertingRules,
                 openai, mpc, errs, evalVars, phase, websocket, isConnected, error,
                 dispatched>>

(***************************************************************************)
(* The system                                                              *)
(***************************************************************************)
AlertIds == 1..(MaxReqs * (MaxRules + 1) + MaxManual)

Next ==
  \/ \E s \in Socks, i \in Ids : Connection(s, i)
  \/ \E s \in Socks : Closing(s)
  \/ \E s \in Socks : OnClose(s)
  \/ \E s \in Socks : OnError(s)
  \/ \E r \in Reqs, b \in Bodies : PostLogs(r, b)
  \/ \E r \in Reqs : LogInsertFailed(r)
  \/ \E r \in Reqs, F \in SUBSET Socks : LogInserted(r, F)
  \/ \E r \in Reqs : RulesLoadFailed(r)
  \/ \E r \in Reqs : RulesLoaded(r)
  \/ \E r \in Reqs : RuleAlertInserted(r)
  \/ \E r \in Reqs : RuleAlertFailed(r)
  \/ \E r \in Reqs, a \in ScorerAnswers : ScorerReturns(r, a)
  \/ \E r \in Reqs : ScorerFailed(r)
  \/ \E r \in Reqs : AnomalyAlertInserted(r)
  \/ \E r \in Reqs : AnomalyAlertFailed(r)
  \/ \E m \in Manuals : PostAlerts(m)
  \/ \E m \in Manuals, F \in SUBSET Socks : ManualAlertInserted(m, F)
  \/ \E m \in Manuals, F \in SUBSET Socks, st \in Statuses : ManualAlertInsertedAs(m, F, st)
  \/ \E a \in AlertIds : PatchAcknowledge(a)
  \/ \E a \in AlertIds : PatchResolve(a)
  \/ \E k \in 1..Len(SampleRules) : PostRules(k)
  \/ Evaluate
  \/ \E s \in ClientSocks : Mount(s)
  \/ \E s \in ClientSocks : EffectRerun(s)
  \/ Unmount
  \/ \E s \in ClientSocks : ClientOpen(s)
  \/ \E s \in ClientSocks, t \in MessageTypes : ClientMessage(s, t)
  \/ \E s \in ClientSocks, failed \in BOOLEAN : ClientClosed(s, failed)
  \/ \E s \in ClientSocks : ReconnectTimer(s)

Spec == Init /\ [][Next]_vars

\* evaluateCondition on its own: every condition and context of the sample sets
NextEval == Evaluate

SpecEval == InitEval /\ [][NextEval]_vars

\* The hook on its own: one component that calls useLogStream
NextClient ==
  \/ \E s \in ClientSocks : Mount(s)
  \/ \E s \in ClientSocks : EffectRerun(s)
  \/ Unmount
  \/ \E s \in ClientSocks : ClientOpen(s)
  \/ \E s \in ClientSocks, t \in MessageTypes : ClientMessage(s, t)
  \/ \E s \in ClientSocks, failed \in BOOLEAN : ClientClosed(s, failed)
  \/ \E s \in ClientSocks : ReconnectTimer(s)

SpecClient == Init /\ [][NextClient]_vars

\* The fan-out on its own: connections, and the handlers up to the broadcast
\* they make.  The steps left out change neither the registry nor a socket.
FanoutBodies == {2}

NextFanout ==
  \/ \E s \in Socks, i \in Ids : Connection(s, i)
  \/ \E s \in Socks : Closing(s)
  \/ \E s \in Socks : OnClose(s)
  \/ \E s \in Socks : OnError(s)
  \/ \E r \in Reqs, b \in FanoutBodies : PostLogs(r, b)
  \/ \E r \in Reqs, F \in SUBSET Socks : LogInserted(r, F)
  \/ \E m \in Manuals : PostAlerts(m)
  \/ \E m \in Manuals, F \in SUBSET Socks : ManualAlertInserted(m, F)

SpecFanout == Init /\ [][NextFanout]_vars

\* Ingestion and detection on their own: no connection is accepted, so every
\* broadcast finds the registry empty.
IngestBodies == {0, 1, 2, 3}
IngestRules == {1, 2, 3, 4}

NextIngest ==
  \/ \E r \in Reqs, b \in IngestBodies : PostLogs(r, b)
  \/ \E r \in Reqs : LogInsertFailed(r)
  \/ \E r \in Reqs : LogInserted(r, {})
  \/ \E r \in Reqs : RulesLoadFailed(r)
  \/ \E r \in Reqs : RulesLoaded(r)
  \/ \E r \in Reqs : RuleAlertInserted(r)
  \/ \E r \in Reqs : RuleAlertFailed(r)
  \/ \E r \in Reqs, a \in ScorerAnswers : ScorerReturns(r, a)
  \/ \E r \in Reqs : ScorerFailed(r)
  \/ \E r \in Reqs : AnomalyAlertInserted(r)
  \/ \E r \in Reqs : AnomalyAlertFailed(r)
  \/ \E m \in Manuals : PostAlerts(m)
  \/ \E m \in Manuals : ManualAlertInserted(m, {})
  \/ \E k \in IngestRules : PostRules(k)

SpecIngest == Init /\ [][NextIngest]_vars

\* The rule engine on its own: rules with conditions, logs at level warning
\* (no call of the scorer, so no client for it), no connection and no manual
\* alert.  The pass of the classifier is started for each log and its insert is
\* left waiting: it writes no row of a rule.
RuleBodies == {2, 4}
RuleSamples == {2, 3, 4, 5, 6}

InitRules == Init /\ ~openai

NextRules ==
  \/ \E k \in RuleSamples : PostRules(k)
  \/ \E r \in Reqs, b \in RuleBodies : PostLogs(r, b)
  \/ \E r \in Reqs : LogInserted(r, {})
  \/ \E r \in Reqs : RulesLoadFailed(r)
  \/ \E r \in Reqs : RulesLoaded(r)
  \/ \E r \in Reqs : RuleAlertInserted(r)
  \/ \E r \in Reqs : RuleAlertFailed(r)

SpecRules == InitRules /\ [][NextRules]_vars

\* The two sources of automatic alerts together: logs that a detector matches,
\* one of them scored, and rules that match them.
AlertBodies == {2, 6}
AlertRules == {1, 2}

NextAlerts ==
  \/ \E k \in AlertRules : PostRules(k)
  \/ \E r \in Reqs, b \in AlertBodies : PostLogs(r, b)
  \/ \E r \in Reqs : LogInserted(r, {})
  \/ \E r \in Reqs : RulesLoaded(r)
  \/ \E r \in Reqs : RuleAlertInserted(r)
  \/ \E r \in Reqs, a \in ScorerAnswers : ScorerReturns(r, a)
  \/ \E r \in Reqs : ScorerFailed(r)
  \/ \E r \in Reqs : AnomalyAlertInserted(r)

SpecAlerts == Init /\ [][NextAlerts]_vars

\* The heuristic classifier on its own: every sample log, no stored rule (the
\* rule evaluation of each request finds the table empty), no connection.
DetectBodies == 1..Len(SampleLogs)

NextDetect ==
  \/ \E r \in Reqs, b \in DetectBodies : PostLogs(r, b)
  \/ \E r \in Reqs : LogInsertFailed(r)
  \/ \E r \in Reqs : LogInserted(r, {})
  \/ \E r \in Reqs : RulesLoadFailed(r)
  \/ \E r \in Reqs : RulesLoaded(r)
  \/ \E r \in Reqs, a \in ScorerAnswers : ScorerReturns(r, a)
  \/ \E r \in Reqs : ScorerFailed(r)
  \/ \E r \in Reqs : AnomalyAlertInserted(r)
  \/ \E r \in Reqs : AnomalyAlertFailed(r)

SpecDetect == Init /\ [][NextDetect]_vars

\* The life cycle of alerts on its own: one log that a detector matches, manual
\* alerts whose body names a status, and the two PATCH routes on stored alerts.
LifecycleBodies == {2}

NextLifecycle ==
  \/ \E r \in Reqs, b \in LifecycleBodies : PostLogs(r, b)
  \/ \E r \in Reqs : LogInserted(r, {})
  \/ \E r \in Reqs : RulesLoaded(r)
  \/ \E r \in Reqs : AnomalyAlertInserted(r)
  \/ \E m \in Manuals : PostAlerts(m)
  \/ \E m \in Manuals, st \in Statuses : ManualAlertInsertedAs(m, {}, st)
  \/ \E a \in AlertIds : PatchAcknowledge(a)
  \/ \E a \in AlertIds : PatchResolve(a)

SpecLifecycle == InitRules /\ [][NextLifecycle]_vars

\* Validation on its own: bodies that fail it and a body that passes, with
\* rules that would match any log.
ValidateBodies == {0, 2}
ValidateRules == {1, 2}

NextValidate ==
  \/ \E k \in ValidateRules : PostRules(k)
  \/ \E r \in Reqs, b \in ValidateBodies : PostLogs(r, b)
  \/ \E r \in Reqs : LogInsertFailed(r)
  \/ \E r \in Reqs : LogInserted(r, {})
  \/ \E r \in Reqs : RulesLoaded(r)
  \/ \E r \in Reqs : RuleAlertInserted(r)
  \/ \E r \in Reqs : AnomalyAlertInserted(r)

SpecValidate == InitRules /\ [][NextValidate]_vars

\* database queries return or are rejected; nothing bounds the time the remote
\* scorer takes to answer
FairSpecDetect ==
  /\ SpecDetect
  /\ \A r \in Reqs :
       /\ WF_vars(LogInserted(r, {}) \/ LogInsertFailed(r))
       /\ WF_vars(RulesLoaded(r) \/ RulesLoadFailed(r))
       /\ WF_vars(AnomalyAlertInserted(r) \/ AnomalyAlertFailed(r))

\* a write that failed surfaces as the "error" or the "close" event of the socket
TransportFailure(s) == s \in writeFailed /\ (OnError(s) \/ OnClose(s))

FairSpecFanout == SpecFanout /\ \A s \in Socks : WF_vars(TransportFailure(s))

(***************************************************************************)
(* Properties                                                              *)
(***************************************************************************)
message(k) == [type |-> sent[k].type, data |-> sent[k].data]

automatic(a) == alerts[a].origin \in {"heuristic", "rule"}

passOver(a) ==
  IF alerts[a].origin = "heuristic" THEN dpc[alerts[a].log] = "done"
  ELSE hpc[alerts[a].log] = "done"

\* C2: every alert that automatic detection has persisted for a log, once the
\* pass that persisted it is over, has been broadcast as alert_created
C2_AutomaticAlertBroadcast ==
  \A a \in 1..Len(alerts) :
    (automatic(a) /\ passOver(a)) =>
      \E k \in 1..Len(sent) : sent[k].type = "alert_created" /\ sent[k].data = a

C4_StoredLogAnswered201 ==
  \A r \in Reqs : (r \in logs /\ resp[r] # 0) => resp[r] = 201

\* C5: in every broadcast ws.send is called once on each socket that is in the
\* registry and OPEN at that time, and on no other socket
C5_SentToExactlyOpenSubscribers ==
  \A k \in 1..Len(sent) : \A s \in Socks :
    sent[k].sends[s] = IF s \in sent[k].open THEN 1 ELSE 0

\* a broadcast found one subscriber OPEN and another one not
C5_Witness ==
  \E k \in 1..Len(sent) : \E s, t \in Socks :
    /\ s \in sent[k].open /\ sent[k].sends[s] = 1
    /\ t \in sent[k].reg \ sent[k].open /\ sent[k].sends[t] = 0

broadcastStep == Len(sent') = Len(sent) + 1

\* C6 as stated: a broadcast removes from the registry every entry whose
\* socket it finds not OPEN
C6_BroadcastEvictsNotOpen ==
  [][broadcastStep =>
       \A i \in Ids :
         (subscribers[i] # NoSock /\ readyState[subscribers[i]] # "OPEN")
           => subscribers'[i] = NoSock]_vars

\* C6 amended: a broadcast sends nothing to a subscriber it finds not OPEN and
\* leaves the registry as it is
C6_BroadcastSkipsNotOpen ==
  [][broadcastStep =>
       /\ subscribers' = subscribers
       /\ \A s \in Socks : readyState[s] # "OPEN" => inbox'[s] = inbox[s]]_vars

\* the last broadcast found a subscriber CLOSING, which is still in the registry
C6_Witness ==
  /\ sent # <<>>
  /\ \E t \in sent[Len(sent)].reg \ sent[Len(sent)].open :
       t \in Registered /\ readyState[t] = "CLOSING"

\* C7: when a write of a broadcast fails, every other subscriber that was
\* OPEN has the message, and the failing subscriber leaves the registry
C7_OthersReceive ==
  \A k \in 1..Len(sent) : \A s \in sent[k].open \ sent[k].failed :
    \E n \in 1..Len(inbox[s]) : inbox[s][n] = message(k)

C7_WriteFailureIsolated ==
  /\ []C7_OthersReceive
  /\ \A s \in Socks : (s \in writeFailed) ~> (s \notin Registered)

\* a write failed, the other subscriber has the message, the failing one is gone
C7_Witness ==
  \E k \in 1..Len(sent) : \E f \in sent[k].failed : \E s \in sent[k].open \ sent[k].failed :
    /\ f \notin Registered
    /\ \E n \in 1..Len(inbox[s]) : inbox[s][n] = message(k)

gone(s) == readyState[s] = "CLOSED" \/ <<"WebSocket error", s, 0>> \in errs

\* C8: a connection whose close or error event was handled is not in the
\* registry, and no later step writes to it
C8_ClosedIsUnregistered ==
  /\ [](\A s \in Socks : gone(s) => s \notin Registered)
  /\ [][\A s \in Socks : gone(s) => inbox'[s] = inbox[s]]_vars

\* a subscriber got a broadcast, closed, and a later broadcast went to another
C8_Witness ==
  \E s \in Socks :
    /\ readyState[s] = "CLOSED"
    /\ Len(sent) >= 2
    /\ s \in sent[1].open
    /\ s \notin sent[Len(sent)].reg
    /\ sent[Len(sent)].open # {}

\* the messages of the broadcasts that reached socket s, in the order of issue
RECURSIVE deliveredUpTo(_, _)
deliveredUpTo(s, k) ==
  IF k = 0 THEN <<>>
  ELSE IF s \in sent[k].open \ sent[k].failed
       THEN Append(deliveredUpTo(s, k - 1), message(k))
       ELSE deliveredUpTo(s, k - 1)

\* C9: every socket holds the messages it was sent in the order in which the
\* broadcasts were issued
C9_ReceivedInBroadcastOrder ==
  \A s \in Socks : inbox[s] = deliveredUpTo(s, Len(sent))

\* an OPEN subscriber has log_created followed by alert_created
C9_Witness ==
  \E s \in Socks :
    /\ readyState[s] = "OPEN"
    /\ Len(inbox[s]) = 2
    /\ inbox[s][1].type = "log_created"
    /\ inbox[s][2].type = "alert_created"

\* C10: no alert was created for a rule whose parsed condition list is empty
C10_EmptyConditionsNeverMatch ==
  \A a \in 1..Len(alerts) :
    alerts[a].origin = "rule" => RuleOf(alerts[a].rule).condition.elems # <<>>

(***************************************************************************)
(* The rule engine                                                         *)
(***************************************************************************)
\* the alerts that evaluateRulesForLog has created for request r, in order
ruleAlertsOf(r) ==
  SelectSeq(alerts, LAMBDA a : a.origin = "rule" /\ a.log = r)

\* evaluateRulesForLog of request r has returned to the handler
rulesOver(r) == hpc[r] = "done" /\ resp[r] = 201

\* the insert of the alert of the rule at position i was rejected
insertFailed(r, i) ==
  /\ <<"Error evaluating rule", r, i>> \in errs
  /\ ~ruleThrows(RuleOf(enabledRules[r][i]))

\* the rows of the table that are enabled, newest first
storedEnabled ==
  SelectSeq([i \in 1..Len(alertingRules) |-> alertingRules[Len(alertingRules) + 1 - i]],
            LAMBDA k : SampleRules[k].enabled)

\* the rule has a condition list with at least one condition
hasConditions(k) ==
  SampleRules[k].condition.json = "array" /\ SampleRules[k].condition.elems # <<>>

\* every condition of the rule is true of the log
allConditionsTrue(k, b) ==
  /\ SampleRules[k].condition.json = "array"
  /\ \A i \in 1..Len(SampleRules[k].condition.elems) :
       evaluateCondition(SampleRules[k].condition.elems[i], contextOf(SampleLogs[b]))

satisfied == [k \in 1..Len(SampleRules) |->
               [b \in 1..Len(SampleLogs) |-> allConditionsTrue(k, b)]]

C11_OnlyEnabledAndSatisfied ==
  \A r \in Reqs : \A n \in 1..Len(ruleAlertsOf(r)) :
    LET k == ruleAlertsOf(r)[n].rule IN
    SampleRules[k].enabled /\ satisfied[k][body[r]]

C11_EnabledAndSatisfiedAlerts ==
  \A r \in Reqs : rulesOver(r) =>
    \A i \in 1..Len(enabledRules[r]) :
      LET k == enabledRules[r][i] IN
      (hasConditions(k) /\ satisfied[k][body[r]] /\ ~insertFailed(r, i)) =>
        \E n \in 1..Len(ruleAlertsOf(r)) : ruleAlertsOf(r)[n].rule = k

C11_LoadsEnabledRules ==
  \A r \in Reqs :
    (hpc[r] = "loadingRules" /\ hpc'[r] # "loadingRules" /\ resp'[r] # 400)
      => enabledRules'[r] = storedEnabled

\* C11: an alert of a rule exists only if the rule is enabled and every one
\* of its conditions is true of the log; the rules evaluated are the enabled
\* rows of the table; and when the evaluation is over, every such rule with at
\* least one condition whose insert was not rejected has its alert
C11_AlertIffEnabledAndAllMatch ==
  /\ [](C11_OnlyEnabledAndSatisfied /\ C11_EnabledAndSatisfiedAlerts)
  /\ [][C11_LoadsEnabledRules]_vars

\* with a disabled rule whose condition is true and an enabled rule with two
\* true conditions in the table, the evaluation ended with the alert of the
\* enabled rule only
C11_Witness ==
  \E r \in Reqs :
    /\ rulesOver(r) /\ body[r] = 2
    /\ alertingRules = <<4, 6>>
    /\ Len(ruleAlertsOf(r)) = 1
    /\ ruleAlertsOf(r)[1].rule = 6

\* the positions of the evaluated rules whose conditions are all true of the log
matching(r) ==
  { i \in 1..Len(enabledRules[r]) : satisfied[enabledRules[r][i]][body[r]] }

\* severity and title of the alerts created for request r, in order
carried(r) ==
  [n \in 1..Len(ruleAlertsOf(r)) |->
     <<ruleAlertsOf(r)[n].severity, ruleAlertsOf(r)[n].title>>]

\* severity and name of the evaluated rules that match, in the order of evaluation
RECURSIVE owed(_, _)
owed(r, i) ==
  IF i > Len(enabledRules[r]) THEN <<>>
  ELSE IF i \in matching(r)
       THEN <<<<SampleRules[enabledRules[r][i]].severity,
                SampleRules[enabledRules[r][i]].name>>>> \o owed(r, i + 1)
       ELSE owed(r, i + 1)

noInsertFailed(r) == \A i \in 1..Len(enabledRules[r]) : ~insertFailed(r, i)

\* C12: when the evaluation of a log is over and no insert was rejected, the
\* alerts created for the log are as many as the evaluated rules that match it,
\* one per matching rule in the order of evaluation, each with the severity and
\* the name of its rule
C12_OneAlertPerMatchingRule ==
  \A r \in Reqs : (rulesOver(r) /\ noInsertFailed(r)) =>
    /\ Len(ruleAlertsOf(r)) = Cardinality(matching(r))
    /\ carried(r) = owed(r, 1)

\* two rules with conditions matched the same log and each has its alert
C12_Witness ==
  \E r \in Reqs :
    /\ rulesOver(r)
    /\ enabledRules[r] = <<2, 6>>
    /\ carried(r) = <<<<"high", "failed-login">>, <<"medium", "auth-warning">>>>

\* a rule alert or a logged rule error belongs to a request that is answered
\* 201 or not answered yet: a failure inside the loop never reaches the handler
C13_NeverRaises ==
  \A r \in Reqs :
    (ruleAlertsOf(r) # <<>> \/ \E i \in 1..MaxRules : <<"Error evaluating rule", r, i>> \in errs)
      => resp[r] \in {0, 201}

\* the rules of the alerts created for request r, in order
made(r) == [n \in 1..Len(ruleAlertsOf(r)) |-> ruleAlertsOf(r)[n].rule]

\* the matching rules from position i on whose insert was not rejected
RECURSIVE due(_, _)
due(r, i) ==
  IF i > Len(enabledRules[r]) THEN <<>>
  ELSE IF i \in matching(r) /\ ~insertFailed(r, i)
       THEN <<enabledRules[r][i]>> \o due(r, i + 1)
       ELSE due(r, i + 1)

\* the rule at position i could not be processed
failedAt(r, i) == ruleThrows(RuleOf(enabledRules[r][i])) \/ insertFailed(r, i)

\* C13: a rule whose condition cannot be parsed or is no list, or whose insert
\* is rejected, is logged and skipped: the evaluation is never answered 400
\* because of it, and when it is over exactly the other matching rules have
\* their alerts
C13_RuleFailureConfined ==
  /\ C13_NeverRaises
  /\ \A r \in Reqs : rulesOver(r) =>
       /\ made(r) = due(r, 1)
       /\ \A i \in 1..Len(enabledRules[r]) :
            ruleThrows(RuleOf(enabledRules[r][i])) => <<"Error evaluating rule", r, i>> \in errs

\* the first rule failed (its condition is no list, or its insert was
\* rejected) and the rule after it has its alert
C13_Witness ==
  \E r \in Reqs :
    /\ rulesOver(r)
    /\ Len(enabledRules[r]) = 2
    /\ failedAt(r, 1)
    /\ <<"Error evaluating rule", r, 1>> \in errs
    /\ made(r) = <<enabledRules[r][2]>>

(***************************************************************************)
(* The heuristic classifier                                                *)
(***************************************************************************)
\* the alerts that detectAnomalies has created for request r
anomalyAlertsOf(r) ==
  SelectSeq(alerts, LAMBDA a : a.origin = "heuristic" /\ a.log = r)

\* the first detector of the list whose pattern matches the message or the
\* event type of each sample, 0 when none does
firstDetector ==
  [b \in 1..Len(SampleLogs) |->
     IF \E i \in 1..Len(patterns) :
          test(RegExp(patterns[i].src), SampleLogs[b].message)
            \/ test(RegExp(patterns[i].src), SampleLogs[b].eventType)
     THEN CHOOSE i \in 1..Len(patterns) :
            /\ test(RegExp(patterns[i].src), SampleLogs[b].message)
                 \/ test(RegExp(patterns[i].src), SampleLogs[b].eventType)
            /\ \A j \in 1..(i - 1) :
                 /\ ~test(RegExp(patterns[j].src), SampleLogs[b].message)
                 /\ ~test(RegExp(patterns[j].src), SampleLogs[b].eventType)
     ELSE 0]

\* the scorer answered anomalous with a confidence above 0.6
escalated(r) ==
  /\ aiAnalysis[r].state = "returned"
  /\ aiAnalysis[r].isAnomalous /\ aiAnalysis[r].confidence > 6

infoOrWarning(b) == SampleLogs[b].level \in {S_info, S_warning}

errorOrCritical(b) == SampleLogs[b].level \in {S_error, S_critical}

\* C14: an alert of the classifier that the scorer did not escalate carries
\* the severity of the first detector that matches its log
C14_AlertCarriesFirstDetectorSeverity ==
  \A r \in Reqs : \A n \in 1..Len(anomalyAlertsOf(r)) :
    ~escalated(r) =>
      /\ firstDetector[body[r]] # 0
      /\ anomalyAlertsOf(r)[n].severity = patterns[firstDetector[body[r]]].severity

\* C15: a log at level info or warning that no detector matches gets no alert
\* from the classifier: its pass ends without asking for one
C15_NoMatchNoAlert ==
  \A r \in Reqs :
    (r \in logs /\ infoOrWarning(body[r]) /\ firstDetector[body[r]] = 0) =>
      /\ anomalyAlertsOf(r) = <<>>
      /\ dpc[r] = "done"
      /\ ~det[r].alertTriggered

\* the pass of a stored warning that no detector matches is over without alert
C15_Witness ==
  \E r \in Reqs :
    /\ r \in logs /\ body[r] = 7 /\ hpc[r] = "done"
    /\ dpc[r] = "done" /\ alerts = <<>>

\* C16: once the pass of a stored log has started, analyzeLogForAnomalies has
\* been called for it if and only if its level is error or critical
C16_ScorerCalledIffErrorOrCritical ==
  \A r \in Reqs :
    /\ r \in logs => (aiAnalysis[r].state # "notCalled" <=> errorOrCritical(body[r]))
    /\ r \notin logs => aiAnalysis[r].state = "notCalled"

\* a warning matched by a detector has its alert and the scorer was not
\* called, and a client for the scorer was there
C16_Witness ==
  \E r \in Reqs :
    /\ openai /\ body[r] = 2 /\ dpc[r] = "done"
    /\ Len(anomalyAlertsOf(r)) = 1
    /\ anomalyAlertsOf(r)[1].severity = "high"
    /\ aiAnalysis[r].state = "notCalled"

\* what the detectors alone make of the log of each sample
patternOnly ==
  [b \in 1..Len(SampleLogs) |->
     [alertTriggered |-> firstDetector[b] # 0,
      detectedSeverity |->
        IF firstDetector[b] # 0 /\ patterns[firstDetector[b]].severity \in {"critical", "high"}
        THEN patterns[firstDetector[b]].severity ELSE "info"]]

\* the pass of request r has the answer of analyzeLogForAnomalies
answered(r) == r \in logs /\ aiAnalysis[r].state = "returned"

\* every alert of the classifier has the severity its pass has settled on, and
\* a pass that has settled on no alert creates none
C17_AlertAsSettled ==
  \A r \in Reqs :
    /\ \A n \in 1..Len(anomalyAlertsOf(r)) :
         anomalyAlertsOf(r)[n].severity = det[r].detectedSeverity
    /\ (answered(r) /\ ~det[r].alertTriggered) => (dpc[r] = "done" /\ anomalyAlertsOf(r) = <<>>)
    /\ (answered(r) /\ det[r].alertTriggered) => dpc[r] \in {"persisting", "done", "failed"}

\* C17: when the scorer has answered for an error or critical log, the pass
\* asks for a critical alert if the answer is anomalous with a confidence above
\* 0.6, whatever the detectors found; any other answer leaves what the
\* detectors found (alert or no alert, and its severity) as it was
C17_ScorerEscalatesAboveThreshold ==
  /\ C17_AlertAsSettled
  /\ \A r \in Reqs : answered(r) =>
       /\ errorOrCritical(body[r])
       /\ IF escalated(r)
          THEN det[r] = [alertTriggered |-> TRUE, detectedSeverity |-> "critical"]
          ELSE det[r] = patternOnly[body[r]]

\* the scorer answered anomalous with confidence 0.9 for an error log that a
\* detector of severity high matches: the alert is critical
C17_Witness ==
  \E r \in Reqs :
    /\ body[r] = 6 /\ dpc[r] = "done"
    /\ aiAnalysis[r] = Returned([isAnomalous |-> TRUE, confidence |-> 9])
    /\ Len(anomalyAlertsOf(r)) = 1
    /\ anomalyAlertsOf(r)[1].severity = "critical"

\* analyzeLogForAnomalies returned without an answer of the scorer: there is
\* no client, or the request or the parsing of the reply threw
fellBack(r) ==
  /\ answered(r)
  /\ ~openai \/ <<"OpenAI analysis error", r, 0>> \in errs

\* C18: after an error or the unavailability of the scorer the pass goes on
\* with what the detectors found: it asks for the alert of a matching detector
\* and for none when no detector matches, and it fails only if the insert of
\* the alert is rejected
C18_ScorerFailureIsNoAnomaly ==
  \A r \in Reqs :
    /\ dpc[r] = "failed" => det[r].alertTriggered
    /\ <<"Anomaly detection error", r, 0>> \in errs => dpc[r] = "failed"
    /\ fellBack(r) =>
         /\ ~aiAnalysis[r].isAnomalous /\ aiAnalysis[r].confidence = 0
         /\ det[r] = patternOnly[body[r]]
         /\ firstDetector[body[r]] = 0 => (dpc[r] = "done" /\ anomalyAlertsOf(r) = <<>>)
         /\ firstDetector[body[r]] # 0 => dpc[r] \in {"persisting", "done", "failed"}
         /\ (firstDetector[body[r]] # 0 /\ dpc[r] = "done") =>
              /\ Len(anomalyAlertsOf(r)) = 1
              /\ anomalyAlertsOf(r)[1].severity = patternOnly[body[r]].detectedSeverity

\* with a client, the call for an error log that a detector matches failed,
\* and the alert of the detector is there
C18_Witness ==
  \E r \in Reqs :
    /\ openai /\ body[r] = 6 /\ dpc[r] = "done"
    /\ fellBack(r)
    /\ Len(anomalyAlertsOf(r)) = 1
    /\ anomalyAlertsOf(r)[1].severity = "high"

\* C19: every pass of the classifier ends, also one that waits for an answer
\* of the scorer
C19_DetectionPassTerminates ==
  \A r \in Reqs : (dpc[r] = "scoring") ~> (dpc[r] \in {"done", "failed"})

\* the row that the step has appended to the table alerts
appended == alerts'[Len(alerts')]

\* C20: every alert that the classifier or the rule engine inserts has status
\* active and neither acknowledgedAt nor resolvedAt
C20_AutomaticAlertsCreatedActive ==
  [][(Len(alerts') = Len(alerts) + 1 /\ appended.origin \in {"heuristic", "rule"}) =>
       /\ appended.status = "active"
       /\ appended.acknowledgedAt = JNull
       /\ appended.resolvedAt = JNull]_vars

\* the classifier, after the scorer escalated, and the rule engine have each
\* inserted an alert for a log
C20_Witness ==
  \E r \in Reqs :
    /\ escalated(r)
    /\ anomalyAlertsOf(r) # <<>> /\ ruleAlertsOf(r) # <<>>
    /\ \A n \in 1..Len(alerts) : alerts[n].status = "active"

\* ---------------------------------------------------------------------------
\* C21 (as stated): an alert's status only moves forward along active,
\* acknowledged, resolved: no step takes a stored alert from resolved back to
\* acknowledged or active, nor from acknowledged back to active.
statusRank(status) ==
  CASE status = "active" -> 1 [] status = "acknowledged" -> 2 [] status = "resolved" -> 3

C21_StatusOnlyMovesForward ==
  [][\A a \in 1..Len(alerts) :
       statusRank(alerts'[a].status) >= statusRank(alerts[a].status)]_vars

\* ---------------------------------------------------------------------------
\* C30 (as stated): in every reachable state of the alert store an alert with
\* status acknowledged has an acknowledged timestamp, an alert with status
\* resolved has a resolved timestamp, and an alert with status active has
\* neither.
C30_TimestampsAgreeWithStatus ==
  \A a \in 1..Len(alerts) :
    /\ alerts[a].status = "acknowledged" => alerts[a].acknowledgedAt # JNull
    /\ alerts[a].status = "resolved" => alerts[a].resolvedAt # JNull
    /\ alerts[a].status = "active" =>
         alerts[a].acknowledgedAt = JNull /\ alerts[a].resolvedAt = JNull

\* ---------------------------------------------------------------------------
\* the call of evaluateCondition that a state of SpecEval records
called == returned # <<>>
result == returned[1]
selector == evalIn.cond.type
operator == evalIn.cond.operator
comparison == evalIn.cond.value

\* the field of the context that the selector of the condition names
field ==
  CASE selector = "ip" -> evalIn.context.ip
    [] selector = "eventType" -> evalIn.context.eventType
    [] selector = "severity" -> evalIn.context.severity
    [] selector = "pattern" -> evalIn.context.message
    [] selector = "source" -> evalIn.context.source
    [] OTHER -> JUndefined

present == field.kind = "str"
empty == field.kind = "str" /\ field.s = <<>>

\* C22 (as stated): for every condition with operator equals and every
\* context, evaluateCondition returns true if and only if the selected context
\* field is a string exactly equal to the comparison value.
C22_EqualsIffExactlyEqual ==
  (called /\ operator = "equals") => (result <=> (present /\ field = comparison))

\* C22 (amended): for every condition with operator equals and every context,
\* evaluateCondition returns true if and only if the selected context field is
\* a string that is not empty and is exactly equal to the comparison value; an
\* empty field gives false even against an empty comparison value.
C22_EqualsIffNonEmptyAndEqual ==
  (called /\ operator = "equals") =>
     (result <=> (present /\ ~empty /\ field = comparison))

\* an event type that equals the comparison value of an equals condition
C22_Witness ==
  /\ called
  /\ operator = "equals"
  /\ selector = "eventType"
  /\ field = JStr(S_failed_login)
  /\ comparison = field
  /\ result

\* ---------------------------------------------------------------------------
\* C23 (as stated): evaluateCondition returns false when the selected field is
\* absent or empty, when the pattern of a matches condition is invalid, when
\* the comparison value does not fit the operator (a non-list value with in, a
\* list value with equals, contains or matches), or when the selector or the
\* operator is unknown.
failsClosedCase ==
  \/ ~present
  \/ empty
  \/ operator = "matches" /\ comparison.kind = "str" /\ RegExpThrows(comparison.s)
  \/ operator = "in" /\ comparison.kind # "arr"
  \/ operator \in {"equals", "contains", "matches"} /\ comparison.kind = "arr"
  \/ selector \notin {"ip", "eventType", "severity", "pattern", "source"}
  \/ operator \notin {"equals", "contains", "matches", "in"}

C23_FailsClosed == (called /\ failsClosedCase) => ~result

\* ---------------------------------------------------------------------------
\* C24: for each log stored through POST /api/logs the heuristic classifier
\* runs exactly once and the rule engine runs exactly once: both start at the
\* step that stores the log, neither starts at any other step, and a pass of
\* the classifier never goes back to an earlier point.
stored(r) == r \in logs

classifierPoint(pc) ==
  CASE pc = "none" -> 0 [] pc = "scoring" -> 1 [] pc = "persisting" -> 2
    [] pc = "done" -> 3 [] pc = "failed" -> 3

classifierStarts(r) == dpc[r] = "none" /\ dpc'[r] # "none"
ruleEngineStarts(r) == hpc[r] # "loadingRules" /\ hpc'[r] = "loadingRules"
logStored(r) == ~stored(r) /\ stored(r)'

rejected(r) == hpc[r] # "idle" /\ body[r] = 0

untouched(r) ==
  /\ resp[r] = 400
  /\ hpc[r] = "done"
  /\ ~stored(r)
  /\ dpc[r] = "none"
  /\ aiAnalysis[r] = NotCalled
  /\ enabledRules[r] = <<>>
  /\ ruleIdx[r] = 0
  /\ \A k \in 1..Len(alerts) : alerts[k].log # r
  /\ \A k \in 1..Len(sent) : ~(sent[k].type = "log_created" /\ sent[k].data = r)

C28_InvalidBodyChangesNothing ==
  [][\A r \in Reqs :
       /\ rejected(r)' => untouched(r)'
       /\ (~rejected(r) /\ rejected(r)') =>
            UNCHANGED <<logs, alerts, alertingRules, sent, inbox, detVars>>]_vars

\* a rejected request while a rule that matches every log is stored
C28_Witness ==
  \E r \in Reqs :
    /\ rejected(r)
    /\ untouched(r)
    /\ \E k \in 1..Len(alertingRules) : alertingRules[k] = 1

\* ---------------------------------------------------------------------------
\* C29: the classifier creates at most one alert per log event, also when
\* several patterns match and when a pattern matches and the scorer reports
\* an anomaly as well.
matchingDetectors(b) ==
  { i \in 1..Len(patterns) :
      test(compiled[i], SampleLogs[b].message) \/ test(compiled[i], SampleLogs[b].eventType) }

C29_AtMostOneAnomalyAlert == \A r \in Reqs : Len(anomalyAlertsOf(r)) <= 1

\* a pass over a log that two detectors match and that the scorer escalates,
\* ended with its one alert
C29_Witness ==
  \E r \in Reqs :
    /\ stored(r)
    /\ Cardinality(matchingDetectors(body[r])) >= 2
    /\ escalated(r)
    /\ dpc[r] = "done"
    /\ Len(anomalyAlertsOf(r)) = 1

\* ---------------------------------------------------------------------------
\* C27 (as stated): in every reachable state the registry holds exactly the
\* connections that were accepted and have not yet closed or errored.
accepted(s) == readyState[s] # "NEW"

C27_RegistryHoldsLiveSubscribers ==
  Registered = { s \in Socks : accepted(s) /\ ~gone(s) }

\* ---------------------------------------------------------------------------
\* C25 (as stated): while the component is mounted, the connection that the
\* reconnection timer makes takes the place of the one that closed: when it
\* opens the hook reports connected, and when it closes in turn another
\* reconnection is scheduled.
reconnection(s) == wsOrigin[s] = "timer"
opens(s) == wsState[s] = "CONNECTING" /\ wsState'[s] = "OPEN"
closes(s) == wsState[s] # "CLOSED" /\ wsState'[s] = "CLOSED"

C25_ReconnectionRestoresStream ==
  [][\A s \in ClientSocks :
       (reconnection(s) /\ phase = "mounted" /\ phase' = "mounted") =>
          /\ opens(s) => isConnected'
          /\ closes(s) => timers' = timers + 1]_vars

\* ---------------------------------------------------------------------------
\* C26 (as stated): once the component is unmounted no socket of the hook is
\* open or connecting, whether the effect or a reconnection timer made it;
\* while it is mounted, no socket of an earlier run of the effect is.
alive(s) == wsState[s] \in {"CONNECTING", "OPEN"}

C26_NoSocketAfterCleanup ==
  /\ phase = "unmounted" => \A s \in ClientSocks : ~alive(s)
  /\ phase = "mounted" =>
       \A s \in ClientSocks : (wsOrigin[s] = "effect" /\ s # websocket) => ~alive(s)

====
